---- MODULE Spec2Model ----
(***************************************************************************)
(* TaskScanner of primus-os (src/primus-os/src/core/tasks.py).             *)
(*                                                                         *)
(* A text is a sequence of characters (one-character strings).  The four   *)
(* regular expressions of _extract_tasks_from_text are kept as data and    *)
(* run by a backtracking matcher with the semantics of Python's re module  *)
(* (greedy quantifiers, ordered alternation, leftmost non-overlapping      *)
(* matches for findall).  The file system and the network are the          *)
(* environment of one scan() call: what stat(), rglob(), read_text() and   *)
(* requests.get() answer is drawn in Init.                                 *)
(***************************************************************************)
EXTENDS Naturals, Sequences, FiniteSets

VARIABLES target, stat, entries, web, pc, branch, tasks, analysed, readlog, extracted

vars == <<target, stat, entries, web, pc, branch, tasks, analysed, readlog, extracted>>

(***************************************************************************)
(* Characters                                                              *)
(***************************************************************************)
NL == "\n"
TAB == "\t"

\* \s of the re module and the characters str.strip() removes
IsSpace(c) == c \in {" ", NL, TAB}

UpperCase == <<"A","B","C","D","E","F","G","H","I","J","K","L","M","N","O","P","Q","R","S","T","U","V","W","X","Y","Z">>
LowerCase == <<"a","b","c","d","e","f","g","h","i","j","k","l","m","n","o","p","q","r","s","t","u","v","w","x","y","z">>
Digits == {"0","1","2","3","4","5","6","7","8","9"}

ToLower == [c \in {UpperCase[i] : i \in 1..26} |->
               LowerCase[CHOOSE i \in 1..26 : UpperCase[i] = c]]

\* (?i) and str.lower(): letter case is ignored by mapping to lower case
Lower(c) == IF c \in DOMAIN ToLower THEN ToLower[c] ELSE c

IsAlpha(c) == Lower(c) \in {LowerCase[i] : i \in 1..26}

\* [:\s]
IsSep(c) == c = ":" \/ IsSpace(c)

\* [^.\n]
IsClauseChar(c) == c # "." /\ c # NL

InClass(cls, c) ==
    CASE cls = "space" -> IsSpace(c)
      [] cls = "sep" -> IsSep(c)
      [] cls = "clause" -> IsClauseChar(c)

(***************************************************************************)
(* The regular expressions, as sequences of elements                       *)
(*   lit   a literal                      opt   (?:literal)?               *)
(*   alt   (?:l1|l2|...)                  rep   class+ or class* (min 1/0) *)
(* cap marks the element inside the capture group.                         *)
(***************************************************************************)
Lit(s) == [t |-> "lit", s |-> s, alts |-> <<>>, cls |-> "", min |-> 0, cap |-> FALSE]
Opt(s) == [t |-> "opt", s |-> s, alts |-> <<>>, cls |-> "", min |-> 0, cap |-> FALSE]
Alt(a) == [t |-> "alt", s |-> <<>>, alts |-> a, cls |-> "", min |-> 0, cap |-> FALSE]
Rep(c, m, g) == [t |-> "rep", s |-> <<>>, alts |-> <<>>, cls |-> c, min |-> m, cap |-> g]

W_manual == <<"m","a","n","u","a","l">>
W_ly == <<"l","y">>
W_process == <<"p","r","o","c","e","s","s">>
W_task == <<"t","a","s","k">>
W_step == <<"s","t","e","p">>
W_procedure == <<"p","r","o","c","e","d","u","r","e">>
W_currently == <<"c","u","r","r","e","n","t","l","y">>
W_done == <<"d","o","n","e">>
W_performed == <<"p","e","r","f","o","r","m","e","d">>
W_human == <<"h","u","m","a","n">>
W_intervention == <<"i","n","t","e","r","v","e","n","t","i","o","n">>
W_input == <<"i","n","p","u","t">>
W_action == <<"a","c","t","i","o","n">>
W_repetitive == <<"r","e","p","e","t","i","t","i","v","e">>

SepsThenClause == << Rep("sep", 0, FALSE), Rep("clause", 1, TRUE) >>

\* a faulty rule list: the fourth rule has lost its first word
patterns_bare_task ==
    << << Lit(W_manual), Opt(W_ly), Rep("space", 1, FALSE),
          Alt(<<W_process, W_task, W_step, W_procedure>>) >> \o SepsThenClause,
       << Lit(W_currently), Rep("space", 1, FALSE), Alt(<<W_done, W_performed>>),
          Rep("space", 1, FALSE), Lit(W_manual), Opt(W_ly) >> \o SepsThenClause,
       << Lit(W_human), Rep("space", 1, FALSE),
          Alt(<<W_intervention, W_input, W_action>>) >> \o SepsThenClause,
       << Lit(W_task) >> \o SepsThenClause >>

patterns ==
    << << Lit(W_manual), Opt(W_ly), Rep("space", 1, FALSE),
          Alt(<<W_process, W_task, W_step, W_procedure>>) >> \o SepsThenClause,
       << Lit(W_currently), Rep("space", 1, FALSE), Alt(<<W_done, W_performed>>),
          Rep("space", 1, FALSE), Lit(W_manual), Opt(W_ly) >> \o SepsThenClause,
       << Lit(W_human), Rep("space", 1, FALSE),
          Alt(<<W_intervention, W_input, W_action>>) >> \o SepsThenClause,
       << Lit(W_repetitive), Rep("space", 1, FALSE), Lit(W_task) >> \o SepsThenClause >>

(***************************************************************************)
(* The matcher: re.match of the elements k.. of a pattern at position pos  *)
(***************************************************************************)
NoMatch == [ok |-> FALSE, end |-> 0, cap |-> <<>>]

\* the literal s stands at position pos of text, letter case ignored
LitAt(s, text, pos) ==
    /\ pos + Len(s) - 1 <= Len(text)
    /\ \A i \in 1..Len(s) : Lower(text[pos + i - 1]) = Lower(s[i])

RECURSIVE RunLen(_, _, _)
\* the length of the longest run of characters of class cls that starts at pos
RunLen(cls, text, pos) ==
    IF pos <= Len(text) /\ InClass(cls, text[pos])
    THEN 1 + RunLen(cls, text, pos + 1)
    ELSE 0

RECURSIVE MatchFrom(_, _, _, _), TryAlt(_, _, _, _, _), TryRep(_, _, _, _, _)

\* the alternatives j.. of the alternation pat[k], in order
TryAlt(pat, k, text, pos, j) ==
    IF j > Len(pat[k].alts) THEN NoMatch
    ELSE LET a == pat[k].alts[j]
             r == IF LitAt(a, text, pos) THEN MatchFrom(pat, k + 1, text, pos + Len(a))
                  ELSE NoMatch
         IN  IF r.ok THEN r ELSE TryAlt(pat, k, text, pos, j + 1)

\* the repetition pat[k] taking n characters, then n-1, ... down to its minimum
TryRep(pat, k, text, pos, n) ==
    LET r == MatchFrom(pat, k + 1, text, pos + n)
    IN  IF r.ok
        THEN IF pat[k].cap THEN [r EXCEPT !.cap = SubSeq(text, pos, pos + n - 1)] ELSE r
        ELSE IF n > pat[k].min THEN TryRep(pat, k, text, pos, n - 1) ELSE NoMatch

MatchFrom(pat, k, text, pos) ==
    IF k > Len(pat) THEN [ok |-> TRUE, end |-> pos, cap |-> <<>>]
    ELSE LET e == pat[k] IN
         CASE e.t = "lit" ->
                IF LitAt(e.s, text, pos) THEN MatchFrom(pat, k + 1, text, pos + Len(e.s))
                ELSE NoMatch
           [] e.t = "opt" ->
                LET with == IF LitAt(e.s, text, pos)
                            THEN MatchFrom(pat, k + 1, text, pos + Len(e.s))
                            ELSE NoMatch
                IN  IF with.ok THEN with ELSE MatchFrom(pat, k + 1, text, pos)
           [] e.t = "alt" -> TryAlt(pat, k, text, pos, 1)
           [] e.t = "rep" ->
                LET n == RunLen(e.cls, text, pos)
                IN  IF n < e.min THEN NoMatch ELSE TryRep(pat, k, text, pos, n)

RECURSIVE FindAllFrom(_, _, _)
\* re.findall(pattern, text): the captures of the leftmost non-overlapping matches
FindAllFrom(pat, text, pos) ==
    IF pos > Len(text) THEN <<>>
    ELSE LET r == MatchFrom(pat, 1, text, pos)
         IN  IF r.ok THEN <<r.cap>> \o FindAllFrom(pat, text, r.end)
             ELSE FindAllFrom(pat, text, pos + 1)

\* a faulty findall: re.search, the first match only
findall_first(pat, text) ==
    LET all == FindAllFrom(pat, text, 1)
    IN  IF all = <<>> THEN <<>> ELSE <<Head(all)>>

findall(pat, text) == FindAllFrom(pat, text, 1)

RECURSIVE LStrip(_), RStrip(_)
LStrip(s) == IF s # <<>> /\ IsSpace(Head(s)) THEN LStrip(Tail(s)) ELSE s
RStrip(s) == IF s # <<>> /\ IsSpace(s[Len(s)]) THEN RStrip(SubSeq(s, 1, Len(s) - 1)) ELSE s

\* str.strip()
strip(s) == RStrip(LStrip(s))

\* [match.strip() for match in matches if match.strip()]
StrippedNonEmpty(matches) ==
    LET keep(m) == strip(m) # <<>>
        kept == SelectSeq(matches, keep)
    IN  [i \in 1..Len(kept) |-> strip(kept[i])]

RECURSIVE CollectFrom(_, _)
\* the list `tasks` after the loop over the patterns p..
CollectFrom(text, p) ==
    IF p > Len(patterns) THEN <<>>
    ELSE StrippedNonEmpty(findall(patterns[p], text)) \o CollectFrom(text, p + 1)

Range(s) == {s[i] : i \in 1..Len(s)}

\* the lists that hold every element of the set S once: list(set(...)) in some order
ListsOf(S) ==
    {l \in [1..Cardinality(S) -> S] : Range(l) = S}

\* a faulty extractor: `return tasks`, the duplicates kept
extract_keeping_duplicates(text) == {CollectFrom(text, 1)}

\* the lists _extract_tasks_from_text may return for text
_extract_tasks_from_text(text) == ListsOf(Range(CollectFrom(text, 1)))

(***************************************************************************)
(* _is_url: urllib.parse.urlparse as far as scheme and netloc go           *)
(***************************************************************************)
\* the position of the first c in s, 0 when there is none (str.find + 1)
Find(c, s) ==
    IF \E i \in 1..Len(s) : s[i] = c
    THEN CHOOSE i \in 1..Len(s) : s[i] = c /\ \A j \in 1..(i - 1) : s[j] # c
    ELSE 0

\* url.lstrip(_WHATWG_C0_CONTROL_OR_SPACE), then the removal of tab and newline
SanitizeUrl(string) ==
    LET isUnsafe(c) == c \in {TAB, NL}
        keep(c) == ~isUnsafe(c)
    IN  SelectSeq(LStrip(string), keep)

SchemeChar(c) == IsAlpha(c) \/ c \in Digits \/ c \in {"+", "-", "."}

\* what urlparse(string) gives: its scheme and netloc, or a ValueError
urlparse(string) ==
    LET url == SanitizeUrl(string)
        i == Find(":", url)
        hasScheme == /\ i > 1
                     /\ IsAlpha(url[1])
                     /\ \A j \in 1..(i - 1) : SchemeChar(url[j])
        scheme == IF hasScheme THEN [j \in 1..(i - 1) |-> Lower(url[j])] ELSE <<>>
        rest == IF hasScheme THEN SubSeq(url, i + 1, Len(url)) ELSE url
        slashes == Len(rest) >= 2 /\ rest[1] = "/" /\ rest[2] = "/"
        after == SubSeq(rest, 3, Len(rest))
        delims == {j \in 1..Len(after) : after[j] \in {"/", "?", "#"}}
        delim == IF delims = {} THEN Len(after) + 1
                 ELSE CHOOSE j \in delims : \A k \in delims : j <= k
        netloc == IF slashes THEN SubSeq(after, 1, delim - 1) ELSE <<>>
        open == \E j \in 1..Len(netloc) : netloc[j] = "["
        close == \E j \in 1..Len(netloc) : netloc[j] = "]"
    IN  [raises |-> open # close, scheme |-> scheme, netloc |-> netloc]

\* all([result.scheme, result.netloc]); the bare except answers False
_is_url(string) ==
    LET result == urlparse(string)
    IN  IF result.raises THEN FALSE
        ELSE result.scheme # <<>> /\ result.netloc # <<>>

(***************************************************************************)
(* Paths                                                                   *)
(***************************************************************************)
\* the position of the last c in s, 0 when there is none (str.rfind + 1)
RFind(c, s) ==
    IF \E i \in 1..Len(s) : s[i] = c
    THEN CHOOSE i \in 1..Len(s) : s[i] = c /\ \A j \in (i + 1)..Len(s) : s[j] # c
    ELSE 0

\* Path.name: the final component
Name(path) == SubSeq(path, RFind("/", path) + 1, Len(path))

\* Path.suffix: the final component from its last dot on; none for a leading
\* or a trailing dot
Suffix(path) ==
    LET name == Name(path)
        i == RFind(".", name)
    IN  IF 1 < i /\ i < Len(name) THEN SubSeq(name, i, Len(name)) ELSE <<>>

S_md == <<".","m","d">>
S_txt == <<".","t","x","t">>
S_doc == <<".","d","o","c">>
S_pdf == <<".","p","d","f">>

\* the longest component of path
RECURSIVE LongestComponent(_)
LongestComponent(path) ==
    LET i == Find("/", path)
    IN  IF i = 0 THEN Len(path)
        ELSE LET here == i - 1
                 there == LongestComponent(SubSeq(path, i + 1, Len(path)))
             IN  IF here >= there THEN here ELSE there

\* a file name may hold NAME_MAX bytes; stat() of a longer one fails with
\* ENAMETOOLONG
NAME_MAX == 255

PlaceholderPrefix == <<"R","e","v","i","e","w"," ","P","D","F"," ","d","o","c","u","m","e","n","t","a","t","i","o","n",":"," ">>

(***************************************************************************)
(* Texts, targets and the environment of one call                          *)
(***************************************************************************)
F_ManualTask == <<"M","a","n","u","a","l"," ","t","a","s","k",":"," ">>
F_ManualStep == <<"m","a","n","u","a","l"," ","s","t","e","p",":">>
F_CurrentlyDoneManually == <<"C","u","r","r","e","n","t","l","y"," ","d","o","n","e"," ","m","a","n","u","a","l","l","y">>
F_RepetitiveTask == <<"r","e","p","e","t","i","t","i","v","e"," ","t","a","s","k">>
F_DataEntry == <<"d","a","t","a"," ","e","n","t","r","y">>
F_Dot == <<".">>
F_Newline == <<NL>>
F_ColonSpace == <<":"," ">>

Fragments ==
    {F_ManualTask, F_ManualStep, F_CurrentlyDoneManually, F_RepetitiveTask,
     F_DataEntry, F_Dot, F_Newline, F_ColonSpace}

\* the number of fragments a generated text is made of, at most
MaxFrags == 3

RECURSIVE TextsOf(_)
\* the concatenations of n fragments
TextsOf(n) ==
    IF n = 0 THEN {<<>>}
    ELSE {f \o t : f \in Fragments, t \in TextsOf(n - 1)}

GeneratedTexts == UNION {TextsOf(n) : n \in 0..MaxFrags}

\* the text of test_task_scanner_parse_text
TestText == <<"C","u","r","r","e","n","t","l","y"," ","d","o","n","e"," ","m","a","n","u","a","l","l","y",":"," ","d","a","t","a"," ","e","n","t","r","y"," ","p","r","o","c","e","s","s","."," ","M","a","n","u","a","l"," ","t","a","s","k",":"," ","r","e","p","o","r","t"," ","g","e","n","e","r","a","t","i","o","n",".">>
DupText == <<"M","a","n","u","a","l"," ","t","a","s","k",":"," ","d","a","t","a"," ","e","n","t","r","y","."," ","R","e","p","e","t","i","t","i","v","e"," ","t","a","s","k",":"," ","d","a","t","a"," ","e","n","t","r","y",".">>
VariantText == <<"M","a","n","u","a","l"," ","t","a","s","k",":"," ","d","a","t","a"," ","e","n","t","r","y",".",NL,"m","a","n","u","a","l"," ","s","t","e","p",":"," ","D","a","t","a"," ","E","n","t","r","y",".",NL,"h","u","m","a","n"," ","i","n","p","u","t",":"," ","d","a","t","a"," "," ","e","n","t","r","y",".",NL,"r","e","p","e","t","i","t","i","v","e"," ","t","a","s","k",":"," ","d","a","t","a"," ","e","n","t","r","y">>
NoCueText == <<"m","a","n","u","a","l"," ","l","a","b","o","u","r"," ","t","a","s","k",":"," ","d","a","t","a"," ","e","n","t","r","y",".">>

\* what the files of the scanned directory hold: one task, two tasks (one of
\* them the task of OneTask), no cue
OneTask == <<"M","a","n","u","a","l"," ","t","a","s","k",":"," ","d","a","t","a"," ","e","n","t","r","y",".">>
TwoTasks == <<"H","u","m","a","n"," ","i","n","p","u","t",":"," ","f","a","x",".",NL,"m","a","n","u","a","l"," ","s","t","e","p",":"," ","d","a","t","a"," ","e","n","t","r","y">>
NoTask == <<"m","a","n","u","a","l"," ","l","a","b","o","u","r",".">>

\* a description longer than a file name may be
LongText == F_ManualTask \o [i \in 1..(NAME_MAX + 1) |-> "x"]

NamedTexts == {TestText, DupText, VariantText, NoCueText, LongText}

U_example == <<"h","t","t","p","s",":","/","/","e","x","a","m","p","l","e",".","c","o","m">>
U_localhost == <<"h","t","t","p",":","/","/","l","o","c","a","l","h","o","s","t",":","3","0","0","0">>
T_not_a_url == <<"n","o","t"," ","a"," ","u","r","l">>
P_file_txt == <<"f","i","l","e",".","t","x","t">>
U_malformed == <<"h","t","t","p",":","/","/","[","b","a","d">>
U_no_host == <<"m","a","i","l","t","o",":","x">>
U_no_scheme == <<"/","/","h","o","s","t","/","p">>
P_docs == <<"d","o","c","s">>
P_notes_bin == <<"n","o","t","e","s",".","b","i","n">>
P_guide_pdf == <<"s","u","b","/","g","u","i","d","e",".","p","d","f">>
P_a_txt == <<"a",".","t","x","t">>
P_b_md == <<"s","u","b","/","b",".","m","d">>
P_d_doc == <<"d",".","d","o","c">>
P_e_png == <<"e",".","p","n","g">>
P_docs_txt == <<"d","o","c","s",".","t","x","t">>
HtmlDup == <<"<","p",">","M","a","n","u","a","l"," ","t","a","s","k",":"," ","d","a","t","a"," ","e","n","t","r","y",".","<","/","p",">">>
HtmlNone == <<"<","h","1",">","N","o","t"," ","F","o","u","n","d","<","/","h","1",">">>

\* the targets that are tried as a file, as a directory and as a missing path
NamedTargets ==
    {U_example, U_localhost, T_not_a_url, P_file_txt, U_malformed, U_no_host,
     U_no_scheme, P_docs, P_notes_bin, P_guide_pdf}

Targets == NamedTargets \cup NamedTexts \cup GeneratedTexts

\* what read_text(encoding='utf-8') does: the content, a PermissionError or a
\* UnicodeDecodeError
Reads == {"ok", "EACCES", "decode"}

Contents == {OneTask, TwoTasks, NoTask}

File(path, read, content) ==
    [path |-> path, kind |-> "file", read |-> read, content |-> content]

Dir(path) == [path |-> path, kind |-> "dir", read |-> "EISDIR", content |-> <<>>]

\* the entries rglob("*") may meet below the directory
Pool ==
    {File(P_a_txt, "ok", OneTask), File(P_a_txt, "decode", TwoTasks),
     File(P_b_md, "ok", TwoTasks), File(P_b_md, "EACCES", OneTask),
     File(P_guide_pdf, "ok", OneTask), File(P_guide_pdf, "EACCES", OneTask),
     File(P_d_doc, "ok", OneTask), File(P_d_doc, "ok", NoTask),
     File(P_e_png, "ok", OneTask), Dir(P_docs_txt)}

\* the number of entries of the scanned directory, at most
MaxFiles == 3

\* rglob yields every path once, in the order of the file system
Listings ==
    UNION {{l \in [1..n -> Pool] :
              \A i, j \in 1..n : i # j => l[i].path # l[j].path} : n \in 0..MaxFiles}

NoWeb == [conn |-> "none", status |-> 0, body |-> <<>>]

\* what requests.get does: a ConnectionError, or a response with a status
Webs ==
    {[conn |-> "error", status |-> 0, body |-> <<>>]}
    \cup {[conn |-> "ok", status |-> s, body |-> b] :
            s \in {200, 404, 500}, b \in {HtmlDup, HtmlNone}}

\* what stat() may answer for the target
StatsOf(t) ==
    IF LongestComponent(t) > NAME_MAX THEN {"ENAMETOOLONG"}
    ELSE IF t \in NamedTargets THEN {"file", "dir", "ENOENT"}
    ELSE {"ENOENT"}

EntriesOf(t, s) ==
    IF s = "file" THEN {<<File(t, r, c)>> : r \in Reads, c \in Contents}
    ELSE IF s = "dir" THEN (IF t = P_docs THEN Listings ELSE {<<>>})
    ELSE {<<>>}

WebsOf(t, s) ==
    IF s \in {"ENOENT", "ENAMETOOLONG"} /\ _is_url(t) THEN Webs ELSE {NoWeb}

Init ==
    /\ target \in Targets
    /\ stat \in StatsOf(target)
    /\ entries \in EntriesOf(target, stat)
    /\ web \in WebsOf(target, stat)
    /\ pc = "scan"
    /\ branch = "none"
    /\ tasks = <<>>
    /\ analysed = <<>>
    /\ readlog = <<>>
    /\ extracted = <<>>

(***************************************************************************)
(* The operations.  Each gives the outcomes it may end with: the list it   *)
(* returns (list(set(...)) fixes no order) and what it did on the way:     *)
(* the files handed to _analyze_file, the files read_text was called on,   *)
(* and the calls of _extract_tasks_from_text with what they returned.      *)
(***************************************************************************)
Outcome(l, a, r, x) == [tasks |-> l, analysed |-> a, readlog |-> r, extracted |-> x]

Call(text, out) == [text |-> text, out |-> out]

\* a followed by b
Then(a, b) ==
    Outcome(a.tasks \o b.tasks, a.analysed \o b.analysed,
            a.readlog \o b.readlog, a.extracted \o b.extracted)

\* a faulty _analyze_file: read_text(errors='ignore'), so that a file with an
\* encoding error is analysed all the same
_analyze_file_ignoring_errors(f) ==
    IF Suffix(f.path) = S_pdf
    THEN {Outcome(<<PlaceholderPrefix \o Name(f.path)>>, <<f.path>>, <<>>, <<>>)}
    ELSE IF f.read \in {"ok", "decode"}
    THEN {Outcome(l, <<f.path>>, <<f.path>>, <<Call(f.content, l)>>) :
            l \in _extract_tasks_from_text(f.content)}
    ELSE {Outcome(<<>>, <<f.path>>, <<f.path>>, <<>>)}

_analyze_file(f) ==
    IF Suffix(f.path) = S_pdf
    THEN {Outcome(<<PlaceholderPrefix \o Name(f.path)>>, <<f.path>>, <<>>, <<>>)}
    ELSE IF f.read = "ok"
    THEN {Outcome(l, <<f.path>>, <<f.path>>, <<Call(f.content, l)>>) :
            l \in _extract_tasks_from_text(f.content)}
    ELSE \* the exception is caught and printed; tasks is still empty
         {Outcome(<<>>, <<f.path>>, <<f.path>>, <<>>)}

RECURSIVE RglobAnySuffix(_, _)
\* a faulty loop: the test of the suffix is missing
RglobAnySuffix(es, i) ==
    IF i > Len(es) THEN {Outcome(<<>>, <<>>, <<>>, <<>>)}
    ELSE LET file_path == es[i]
             here == IF file_path.kind = "file"
                     THEN _analyze_file(file_path)
                     ELSE {Outcome(<<>>, <<>>, <<>>, <<>>)}
         IN  {Then(a, b) : a \in here, b \in RglobAnySuffix(es, i + 1)}

RECURSIVE RglobFrom(_, _)
\* the loop over path_obj.rglob("*") from its i-th entry on
RglobFrom(es, i) ==
    IF i > Len(es) THEN {Outcome(<<>>, <<>>, <<>>, <<>>)}
    ELSE LET file_path == es[i]
             here == IF /\ file_path.kind = "file"
                        /\ Suffix(file_path.path) \in {S_md, S_txt, S_doc, S_pdf}
                     THEN _analyze_file(file_path)
                     ELSE {Outcome(<<>>, <<>>, <<>>, <<>>)}
         IN  {Then(a, b) : a \in here, b \in RglobFrom(es, i + 1)}

\* st: what path_obj.is_file() sees; es: the file itself, or what is below
\* the directory
_scan_filesystem(st, es) ==
    IF st = "file" THEN _analyze_file(es[1]) ELSE RglobFrom(es, 1)

RECURSIVE get_text(_)
\* BeautifulSoup(content, 'html.parser').get_text(): the text between the tags
get_text(html) ==
    LET i == Find("<", html)
        j == IF i = 0 THEN 0 ELSE Find(">", SubSeq(html, i + 1, Len(html)))
    IN  IF i = 0 \/ j = 0 THEN html
        ELSE SubSeq(html, 1, i - 1) \o get_text(SubSeq(html, i + j + 1, Len(html)))

\* requests.get raises for a connection error only; a response of any status
\* is parsed
_scan_webpage(w) ==
    IF w.conn = "error" THEN {Outcome(<<>>, <<>>, <<>>, <<>>)}
    ELSE LET text == get_text(w.body)
         IN  {Outcome(l, <<>>, <<>>, <<Call(text, l)>>) :
                l \in _extract_tasks_from_text(text)}

_parse_text_description(text) ==
    {Outcome(l, <<>>, <<>>, <<Call(text, l)>>) : l \in _extract_tasks_from_text(text)}

\* Path(target).exists(): pathlib answers False for ENOENT and re-raises
\* ENAMETOOLONG; a pathlib that swallows every OSError answers False
exists(st) ==
    CASE st \in {"file", "dir"} -> {"True"}
      [] st = "ENOENT" -> {"False"}
      [] st = "ENAMETOOLONG" -> {"raises", "False"}

(***************************************************************************)
(* scan(target)                                                            *)
(***************************************************************************)
Return(o, b) ==
    /\ pc' = "done"
    /\ branch' = b
    /\ tasks' = o.tasks
    /\ analysed' = o.analysed
    /\ readlog' = o.readlog
    /\ extracted' = o.extracted
    /\ UNCHANGED <<target, stat, entries, web>>

\* the OSError of exists() leaves scan
ScanRaises ==
    /\ pc = "scan"
    /\ "raises" \in exists(stat)
    /\ pc' = "raised"
    /\ UNCHANGED <<target, stat, entries, web, branch, tasks, analysed, readlog, extracted>>

ScanFilesystem ==
    /\ pc = "scan"
    /\ "True" \in exists(stat)
    /\ \E o \in _scan_filesystem(stat, entries) : Return(o, "filesystem")

ScanWebpage ==
    /\ pc = "scan"
    /\ "False" \in exists(stat)
    /\ _is_url(target)
    /\ \E o \in _scan_webpage(web) : Return(o, "webpage")

ParseTextDescription ==
    /\ pc = "scan"
    /\ "False" \in exists(stat)
    /\ ~_is_url(target)
    /\ \E o \in _parse_text_description(target) : Return(o, "text")

scan == ScanRaises \/ ScanFilesystem \/ ScanWebpage \/ ParseTextDescription

Next == scan

Spec == Init /\ [][Next]_vars

(***************************************************************************)
(* Properties                                                              *)
(***************************************************************************)
NoDuplicates(l) == \A i, j \in 1..Len(l) : i # j => l[i] # l[j]

\* sub occurs in s, letter case ignored
Contains(s, sub) == \E i \in 1..Len(s) : LitAt(sub, s, i)

\* the calls of the extractor made by the scan
Calls == {extracted[k] : k \in 1..Len(extracted)}

K_data_entry == <<"d","a","t","a"," ","e","n","t","r","y">>
K_data__entry == <<"d","a","t","a"," "," ","e","n","t","r","y">>
K_Data_Entry == <<"D","a","t","a"," ","E","n","t","r","y">>
K_report_generation == <<"r","e","p","o","r","t"," ","g","e","n","e","r","a","t","i","o","n">>

(***************************************************************************)
(* The cue phrases, stated apart from the regular expressions: the words   *)
(* of a rule, one of each slot, with white space between them.             *)
(***************************************************************************)
CueWords ==
    << << {W_manual, W_manual \o W_ly}, {W_process, W_task, W_step, W_procedure} >>,
       << {W_currently}, {W_done, W_performed}, {W_manual, W_manual \o W_ly} >>,
       << {W_human}, {W_intervention, W_input, W_action} >>,
       << {W_repetitive}, {W_task} >> >>

Rules == 1..Len(CueWords)

\* the positions p >= from such that text[from..p-1] is white space, one
\* character at least
AfterSpaces(text, from) ==
    {p \in (from + 1)..(Len(text) + 1) : \A q \in from..(p - 1) : IsSpace(text[q])}

RECURSIVE CueEnds(_, _, _, _)
\* the positions just after the words of the slots k.. that stand at pos
CueEnds(slots, k, text, pos) ==
    UNION {LET e == pos + Len(w)
           IN  IF k = Len(slots) THEN {e}
               ELSE UNION {CueEnds(slots, k + 1, text, p) : p \in AfterSpaces(text, e)}
           : w \in {v \in slots[k] : LitAt(v, text, pos)}}

\* a cue phrase of rule r starts at position i of text
CueAt(r, text, i) == CueEnds(CueWords[r], 1, text, i) # {}

\* the least position of the set
Least(ps) == CHOOSE p \in ps : \A q \in ps : p <= q

\* the cue at i with its colons and white space ends before this position
ClauseStart(r, text, i) ==
    LET ends == CueEnds(CueWords[r], 1, text, i)
        e == CHOOSE x \in ends : \A y \in ends : y <= x
    IN  Least({p \in e..(Len(text) + 1) : p = Len(text) + 1 \/ ~IsSep(text[p])})

\* the next sentence boundary (a full stop, a newline, the end of the text)
ClauseEnd(r, text, i) ==
    Least({p \in ClauseStart(r, text, i)..(Len(text) + 1) :
             p = Len(text) + 1 \/ text[p] \in {".", NL}})

\* the clause that follows the cue at i, up to the sentence boundary
Clause(r, text, i) ==
    SubSeq(text, ClauseStart(r, text, i), ClauseEnd(r, text, i) - 1)

\* no earlier cue of the same rule has a clause that reaches over position i
Free(r, text, i) ==
    \A j \in 1..(i - 1) : CueAt(r, text, j) => ClauseEnd(r, text, j) <= i

HasCue(text) == \E r \in Rules, i \in 1..Len(text) : CueAt(r, text, i)

TestExampleHolds(x) ==
    x.text = TestText =>
        /\ \E i \in 1..Len(x.out) : Contains(x.out[i], K_data_entry)
        /\ \E i \in 1..Len(x.out) : Contains(x.out[i], K_report_generation)

(***************************************************************************)
(* scan: the three branches                                                *)
(***************************************************************************)
HasSchemeAndHost(t) ==
    LET u == urlparse(t)
    IN  ~u.raises /\ u.scheme # <<>> /\ u.netloc # <<>>

\* the branch the order of the tests stands for: an existing path first, a
\* URL next, a text last
ExpectedBranch ==
    IF stat \in {"file", "dir"} THEN "filesystem"
    ELSE IF HasSchemeAndHost(target) THEN "webpage"
    ELSE "text"

\* C1: whatever the target, scan takes exactly one of the three branches: the
\* file system scan for an existing path, else the web page scan for a string
\* with a scheme and a host, else the scan of the target as a text; the strings
\* of test_is_url are classified as the test says, and a malformed URL is
\* scanned as a text.
C1_OneOfThreeBranches ==
    pc # "scan" =>
        /\ pc = "done"
        /\ branch = ExpectedBranch
        /\ (stat = "ENOENT" /\ target \in {U_example, U_localhost} => branch = "webpage")
        /\ (stat = "ENOENT" /\ target \in {T_not_a_url, P_file_txt, U_malformed}
               => branch = "text")

\* C2: a failed fetch (a connection error, or a status outside 2xx) gives no
\* task.
C2_FailedFetchGivesNothing ==
    (/\ pc = "done"
     /\ branch = "webpage"
     /\ (web.conn = "error" \/ web.status \notin 200..299))
        => tasks = <<>>

\* C3: scan returns for every target; no exception leaves it.
C3_ScanNeverRaises == pc # "raised"

(***************************************************************************)
(* The scan of a directory                                                 *)
(***************************************************************************)
DirScanDone == pc = "done" /\ stat = "dir"

\* the lists the scan of a directory with these entries may return
ResultsOf(es) == {o.tasks : o \in _scan_filesystem("dir", es)}

Unreadable(f) == f.kind = "file" /\ f.read # "ok"

WithoutUnreadable(es) ==
    LET keep(f) == ~Unreadable(f)
    IN  SelectSeq(es, keep)

WithoutUnreadableTexts(es) ==
    LET keep(f) == ~(Unreadable(f) /\ Suffix(f.path) # S_pdf)
    IN  SelectSeq(es, keep)

\* C4, as claimed: the scan of a directory returns what it would return with
\* the unreadable files removed, wherever they stand in the listing.
C4_UnreadableFilesSkipped ==
    DirScanDone =>
        LET without == ResultsOf(WithoutUnreadable(entries))
        IN  tasks \in without /\ ResultsOf(entries) = without

\* C4, amended: the scan of a directory returns what it would return with the
\* unreadable files other than .pdf files removed, wherever they stand in the
\* listing (a .pdf file is never read and gives its placeholder, readable or
\* not).
C4_UnreadableTextFilesSkipped ==
    DirScanDone =>
        LET without == ResultsOf(WithoutUnreadableTexts(entries))
        IN  tasks \in without /\ ResultsOf(entries) = without

\* an unreadable file stands between two files that give tasks
C4_Witness ==
    /\ DirScanDone
    /\ entries = <<File(P_b_md, "ok", TwoTasks), File(P_a_txt, "decode", TwoTasks),
                   File(P_guide_pdf, "ok", OneTask)>>
    /\ Len(tasks) = 3

RecognizedExtensions == {S_md, S_txt, S_doc, S_pdf}

Recognized(f) == f.kind = "file" /\ Suffix(f.path) \in RecognizedExtensions

OnlyRecognized(es) == SelectSeq(es, Recognized)

Paths(es) == [i \in 1..Len(es) |-> es[i].path]

\* C7: the scan of a directory analyses the files with a recognized extension,
\* at any depth, and no other entry; the other entries add nothing to the
\* result; with no such file the result is empty and nothing is raised.
C7_OnlyRecognizedExtensions ==
    (pc # "scan" /\ stat = "dir") =>
        /\ pc = "done"
        /\ analysed = Paths(OnlyRecognized(entries))
        /\ tasks \in ResultsOf(OnlyRecognized(entries))
        /\ (OnlyRecognized(entries) = <<>> => tasks = <<>>)

\* a file of another extension that holds a cue, beside a recognized file one
\* level down
C7_Witness ==
    /\ DirScanDone
    /\ entries = <<File(P_e_png, "ok", OneTask), File(P_b_md, "ok", TwoTasks),
                   Dir(P_docs_txt)>>
    /\ analysed = <<P_b_md>>
    /\ Len(tasks) = 2

TextExtensions == {S_md, S_txt, S_doc}

\* C8: a file is read only if it has a document or text extension; a file of
\* another type that the scan handles, be it the target or a file of the
\* scanned directory, is never read and gives a placeholder with its name.
C8_UnsupportedFilesGivePlaceholders ==
    (pc = "done" /\ branch = "filesystem") =>
        /\ \A p \in Range(readlog) : Suffix(p) \in TextExtensions
        /\ \A p \in Range(analysed) :
              Suffix(p) \notin TextExtensions =>
                  (PlaceholderPrefix \o Name(p)) \in Range(tasks)

\* C10: the list scan returns holds no task description twice.
C10_NoTaskTwice == pc = "done" => NoDuplicates(tasks)

(***************************************************************************)
(* The extractor                                                           *)
(***************************************************************************)
\* C5: every entry the extractor returns is non-empty and has no white space
\* at either end, no entry occurs twice, and every distinct trimmed capture is
\* an entry of its own (captures that differ in letter case or inner white
\* space are not merged).
C5_EntriesTrimmedAndDistinct ==
    \A x \in Calls :
        /\ \A i \in 1..Len(x.out) :
              /\ x.out[i] # <<>>
              /\ ~IsSpace(x.out[i][1])
              /\ ~IsSpace(x.out[i][Len(x.out[i])])
        /\ NoDuplicates(x.out)
        /\ \A p \in 1..Len(patterns) :
              \A c \in Range(findall(patterns[p], x.text)) :
                  strip(c) # <<>> => strip(c) \in Range(x.out)

\* four captures, two of them equal, the others differing from them in letter
\* case and in inner white space: three entries
C5_Witness ==
    /\ pc = "done"
    /\ \E x \in Calls :
          /\ x.text = VariantText
          /\ Range(x.out) = {K_data_entry, K_Data_Entry, K_data__entry}
          /\ Len(x.out) = 3

\* C6, as claimed: wherever a cue phrase is followed by a non-blank clause,
\* the trimmed clause up to the next sentence boundary is an entry of the
\* result; the text of test_task_scanner_parse_text gives an entry with "data
\* entry" and one with "report generation".
C6_EveryCueGivesItsClause ==
    \A x \in Calls :
        /\ \A r \in Rules, i \in 1..Len(x.text) :
              (CueAt(r, x.text, i) /\ strip(Clause(r, x.text, i)) # <<>>)
                  => strip(Clause(r, x.text, i)) \in Range(x.out)
        /\ TestExampleHolds(x)

\* C6, amended: wherever a cue phrase is followed by a non-blank clause and
\* does not itself stand inside the clause of an earlier cue of the same rule,
\* the trimmed clause up to the next sentence boundary is an entry of the
\* result; the text of test_task_scanner_parse_text gives an entry with "data
\* entry" and one with "report generation".
C6_EveryFreeCueGivesItsClause ==
    \A x \in Calls :
        /\ \A r \in Rules, i \in 1..Len(x.text) :
              (/\ CueAt(r, x.text, i)
               /\ strip(Clause(r, x.text, i)) # <<>>
               /\ Free(r, x.text, i))
                  => strip(Clause(r, x.text, i)) \in Range(x.out)
        /\ TestExampleHolds(x)

\* the text of the test has been scanned: two rules, two entries
C6_Witness ==
    /\ pc = "done"
    /\ \E x \in Calls :
          /\ x.text = TestText
          /\ \E i \in 1..Len(x.out) : Contains(x.out[i], K_data_entry)
          /\ \E i \in 1..Len(x.out) : x.out[i] = K_report_generation

\* C9: a text without a cue phrase gives no entry.
C9_NoCueNoTask ==
    \A x \in Calls : ~HasCue(x.text) => x.out = <<>>

\* a text with words of the cues, but no cue phrase, has been scanned
C9_Witness ==
    /\ pc = "done"
    /\ \E x \in Calls : x.text = NoCueText /\ ~HasCue(x.text) /\ x.out = <<>>

====
